---- MODULE Spec2Model ----
(***************************************************************************)
(* A model of package graph (graph.go): a MessageGraph built with AddNode, *)
(* AddEdge and SetEntryPoint, compiled into a Runnable that refers to it,  *)
(* and Runnable.Invoke, which walks the graph from the entry point to END. *)
(*                                                                         *)
(* The state type T of the package is instantiated as in graph_test.go: a  *)
(* sequence of messages, which the steps of the tests append to.           *)
(*                                                                         *)
(* Spec is the package used from one goroutine, FairSpec adds that a loop  *)
(* in progress goes on, SpecHistory records what AddNode replaced,         *)
(* SpecConcurrent has several goroutines invoke one Runnable, and          *)
(* SpecInterleaved has the builder called between iterations of an Invoke. *)
(***************************************************************************)
EXTENDS Integers, Sequences, FiniteSets, TLC

VARIABLES
    heap,       \* the MessageGraph objects, by pointer
    runnable,   \* the caller's *Runnable, as returned by the last Compile
    cerr,       \* the error returned by the last Compile
    inv,        \* the activation of Runnable.Invoke: its locals and its result
    calls,      \* the activations of Invoke on the goroutines that share the
                \* Runnable, under SpecConcurrent; none elsewhere
    during,     \* history, kept under SpecInterleaved only: the operation of
                \* the builder called while the Invoke was in its loop, ""
                \* when there was none
    replaced    \* history, kept under SpecHistory only: the name, other than
                \* END, whose step the last call on the builder replaced by
                \* another step, "" when it replaced none

vars == <<heap, runnable, cerr, inv, calls, during, replaced>>

----------------------------------------------------------------------------
(* Bounds of the model. *)

\* the longest edge slice the builder makes
MaxEdges == 2
\* the longest state (message sequence) a run is followed to
MaxLen == 3
\* the number of step invocations of one run that the log records
MaxLog == 3

----------------------------------------------------------------------------
(* Values. *)

END == "END"

\* the names the caller registers nodes under and draws edges between
NodeNames == {END, "a", "b"}

\* the names of the nodes whose step a run can invoke
StepNames == NodeNames \ {END}

\* the names the caller sets as entry point; "" is the zero value of the field
EntryNames == NodeNames \cup {""}

\* the initial states the caller passes to Invoke
InitStates == {<<0>>}

\* the step functions the caller registers
Steps == {"identity", "append", "fail"}

\* the step registered for END by NewMessageGraph
Identity(state) == [state |-> state, err |-> "nil"]

\* the step of node1 of the "Simple graph" test: return append(state, ..), nil
AppendMsg(state) == [state |-> Append(state, 1), err |-> "nil"]

\* the step of the "Error in node function" test: return nil, errors.New(..)
NodeError(state) == [state |-> <<>>, err |-> "node error"]

\* node.Function(ctx, state): the pair (state, err) the step returns; the
\* steps of the tests ignore ctx
Call(fn, state) ==
    CASE fn = "identity" -> Identity(state)
      [] fn = "append" -> AppendMsg(state)
      [] fn = "fail" -> NodeError(state)

Node(name, fn) == [Name |-> name, Function |-> fn]

Edge(from, to) == [From |-> from, To |-> to]

\* the errors of the package; NoErr is Go's nil error
NoErr == [kind |-> "nil", name |-> "", cause |-> "nil"]
ErrEntryPointNotSet == [kind |-> "ErrEntryPointNotSet", name |-> "", cause |-> "nil"]
ErrNodeNotFound(name) == [kind |-> "ErrNodeNotFound", name |-> name, cause |-> "nil"]
ErrNoOutgoingEdge(name) == [kind |-> "ErrNoOutgoingEdge", name |-> name, cause |-> "nil"]
\* fmt.Errorf("error in node %s: %w", currentNode, err)
ErrInNode(name, cause) == [kind |-> "ErrInNode", name |-> name, cause |-> cause]

\* the contexts the caller passes to Invoke: context.Background(), which is
\* never cancelled, and a context whose cancel function has been called
Background == "background"
Cancelled == "cancelled"
Contexts == {Background, Cancelled}

\* the goroutines that call Invoke on the one Runnable
Goroutines == {"p", "q"}

\* pointers: G is the graph the caller builds; Nil is Go's nil
Nil == "nil"
G == "g"
Ptrs == {G, "copy"}

\* a nil *Runnable: the handle the caller holds before, or after a failed, Compile
NilRunnable == [graph |-> Nil]

----------------------------------------------------------------------------
(* The graph definition. *)

\* the graph the caller holds
g == heap[G]

\* a NewMessageGraph that only makes the node map
NewMessageGraphBare ==
    [nodes |-> [n \in {} |-> Node(n, "identity")], edges |-> <<>>, entryPoint |-> ""]

\* NewMessageGraph: an empty node map, then AddNode(END, identity)
NewMessageGraph ==
    [nodes |-> (END :> Node(END, "identity")), edges |-> <<>>, entryPoint |-> ""]

\* a map insert that keeps the node already registered under name
SetNodeKeep(nodes, name, fn) ==
    [n \in (DOMAIN nodes) \cup {name} |->
        IF n \in DOMAIN nodes THEN nodes[n] ELSE Node(name, fn)]

\* g.nodes[name] = Node{name, fn}
SetNode(nodes, name, fn) ==
    [n \in (DOMAIN nodes) \cup {name} |->
        IF n = name THEN Node(name, fn) ELSE nodes[n]]

\* the new edge put in front of the others
PrependEdge(edges, from, to) == <<Edge(from, to)>> \o edges

\* append(g.edges, Edge{from, to})
AppendEdge(edges, from, to) == Append(edges, Edge(from, to))

\* the activation record of Invoke before any call of it: pc, the parameter
\* ctx, the locals currentNode and state, the returned err, and as history
\* the argument arg, the log of step invocations and the parity odd of the
\* iterations begun
Idle ==
    [pc |-> "idle", ctx |-> Background, currentNode |-> "", state |-> <<>>,
     err |-> NoErr, arg |-> <<>>, log |-> <<>>, more |-> FALSE, odd |-> FALSE]

\* the caller goes on after Invoke has returned: its result is dropped
Dropped == IF inv.pc = "returned" THEN Idle ELSE inv

AddNode(name, fn) ==
    /\ inv.pc /= "loop"
    /\ heap' = [heap EXCEPT ![G].nodes = SetNode(@, name, fn)]
    /\ replaced' = ""
    /\ inv' = Dropped
    /\ UNCHANGED <<runnable, cerr, calls, during>>

\* AddNode, with the history of what it replaced
AddNodeHistory(name, fn) ==
    /\ inv.pc /= "loop"
    /\ heap' = [heap EXCEPT ![G].nodes = SetNode(@, name, fn)]
    /\ replaced' = IF /\ name /= END
                       /\ name \in DOMAIN g.nodes
                       /\ g.nodes[name].Function /= fn
                     THEN name ELSE ""
    /\ inv' = Dropped
    /\ UNCHANGED <<runnable, cerr, calls, during>>

AddEdge(from, to) ==
    /\ inv.pc /= "loop"
    /\ Len(g.edges) < MaxEdges
    /\ heap' = [heap EXCEPT ![G].edges = AppendEdge(@, from, to)]
    /\ replaced' = ""
    /\ inv' = Dropped
    /\ UNCHANGED <<runnable, cerr, calls, during>>

SetEntryPoint(name) ==
    /\ inv.pc /= "loop"
    /\ heap' = [heap EXCEPT ![G].entryPoint = name]
    /\ replaced' = ""
    /\ inv' = Dropped
    /\ UNCHANGED <<runnable, cerr, calls, during>>

----------------------------------------------------------------------------
(* Compile. *)

\* a Compile without the check of the entry point
CompileUnchecked ==
    /\ inv.pc /= "loop"
    /\ runnable' = [graph |-> G] /\ cerr' = NoErr
    /\ inv' = Dropped
    /\ UNCHANGED <<heap, calls, during, replaced>>

\* a Compile that freezes the graph: the Runnable refers to a copy of it
CompileCopy ==
    /\ inv.pc /= "loop"
    /\ IF g.entryPoint = ""
         THEN runnable' = NilRunnable /\ cerr' = ErrEntryPointNotSet /\ heap' = heap
         ELSE /\ runnable' = [graph |-> "copy"] /\ cerr' = NoErr
              /\ heap' = [heap EXCEPT !["copy"] = g]
    /\ inv' = Dropped
    /\ UNCHANGED <<calls, during, replaced>>

\* if g.entryPoint == "" { return nil, ErrEntryPointNotSet }
\* return &Runnable{graph: g}, nil
Compile ==
    /\ inv.pc /= "loop"
    /\ IF g.entryPoint = ""
         THEN runnable' = NilRunnable /\ cerr' = ErrEntryPointNotSet
         ELSE runnable' = [graph |-> G] /\ cerr' = NoErr
    /\ inv' = Dropped
    /\ UNCHANGED <<heap, calls, during, replaced>>

----------------------------------------------------------------------------
(* Invoke. *)

\* an edge scan without its break: the last edge from currentNode wins
LastEdge(edges, currentNode) ==
    LET from == {i \in 1..Len(edges) : edges[i].From = currentNode}
    IN  IF from = {} THEN 0
        ELSE CHOOSE i \in from : \A j \in from : i >= j

\* for _, edge := range edges: the index of the first edge from currentNode,
\* 0 when there is none (foundNext stays false)
FirstEdge(edges, currentNode) ==
    LET from == {i \in 1..Len(edges) : edges[i].From = currentNode}
    IN  IF from = {} THEN 0
        ELSE CHOOSE i \in from : \A j \in from : i <= j

\* history of a run: log holds its last MaxLog step invocations, oldest first,
\* and more says that older ones were dropped from it
Logged(v, node, out) ==
    LET e == [node |-> node.Name, fn |-> node.Function, ctx |-> v.ctx,
              in |-> v.state, out |-> out.state, err |-> out.err]
    IN  IF Len(v.log) < MaxLog
          THEN [v EXCEPT !.log = Append(@, e)]
          ELSE [v EXCEPT !.log = Append(Tail(@), e), !.more = TRUE]

\* return state, err
Return(v, state, err) == [v EXCEPT !.pc = "returned", !.state = state, !.err = err]

\* currentNode := r.graph.entryPoint
Start(gr, state) ==
    [Idle EXCEPT !.pc = "loop", !.currentNode = gr.entryPoint,
                 !.state = state, !.arg = state]

\* Invoke(ctx, state) with a context of the caller's choice
StartCtx(gr, ctx, state) == [Start(gr, state) EXCEPT !.ctx = ctx]

\* the iteration begun: the parity of the count of iterations flips
Begun(v) == [v EXCEPT !.odd = ~@]

\* Iter with "state, err := node.Function(ctx, state)": the step's result is
\* assigned to variables of the loop body, which shadow Invoke's state
IterShadowed(gr, u) ==
    LET v == Begun(u) IN
    IF v.currentNode = END
      THEN Return(v, v.state, NoErr)
    ELSE IF v.currentNode \notin DOMAIN gr.nodes
      THEN Return(v, v.state, ErrNodeNotFound(v.currentNode))
    ELSE
      LET node == gr.nodes[v.currentNode]
          out == Call(node.Function, v.state)
          w == Logged(v, node, out)
          i == FirstEdge(gr.edges, v.currentNode)
      IN  IF out.err /= "nil"
            THEN Return(w, out.state, ErrInNode(v.currentNode, out.err))
          ELSE IF i = 0
            THEN Return(w, out.state, ErrNoOutgoingEdge(v.currentNode))
          ELSE [w EXCEPT !.currentNode = gr.edges[i].To]

\* Iter with the test for END after the node's lookup and call
IterLookupFirst(gr, u) ==
    LET v == Begun(u) IN
    IF v.currentNode \notin DOMAIN gr.nodes
      THEN Return(v, v.state, ErrNodeNotFound(v.currentNode))
    ELSE
      LET node == gr.nodes[v.currentNode]
          out == Call(node.Function, v.state)
          w == Logged(v, node, out)
          i == FirstEdge(gr.edges, v.currentNode)
      IN  IF out.err /= "nil"
            THEN Return(w, out.state, ErrInNode(v.currentNode, out.err))
          ELSE IF v.currentNode = END
            THEN Return(w, out.state, NoErr)
          ELSE IF i = 0
            THEN Return(w, out.state, ErrNoOutgoingEdge(v.currentNode))
          ELSE [w EXCEPT !.state = out.state, !.currentNode = gr.edges[i].To]

\* Iter that validates the successor before it calls the current node's step
IterTargetChecked(gr, u) ==
    LET v == Begun(u) IN
    IF v.currentNode = END
      THEN Return(v, v.state, NoErr)
    ELSE IF v.currentNode \notin DOMAIN gr.nodes
      THEN Return(v, v.state, ErrNodeNotFound(v.currentNode))
    ELSE
      LET node == gr.nodes[v.currentNode]
          out == Call(node.Function, v.state)
          w == Logged(v, node, out)
          i == FirstEdge(gr.edges, v.currentNode)
      IN  IF i /= 0 /\ gr.edges[i].To \notin DOMAIN gr.nodes
            THEN Return(v, v.state, ErrNodeNotFound(gr.edges[i].To))
          ELSE IF out.err /= "nil"
            THEN Return(w, out.state, ErrInNode(v.currentNode, out.err))
          ELSE IF i = 0
            THEN Return(w, out.state, ErrNoOutgoingEdge(v.currentNode))
          ELSE [w EXCEPT !.state = out.state, !.currentNode = gr.edges[i].To]

\* Iter that scans for the outgoing edge before it calls the node's step
IterScanFirst(gr, u) ==
    LET v == Begun(u) IN
    IF v.currentNode = END
      THEN Return(v, v.state, NoErr)
    ELSE IF v.currentNode \notin DOMAIN gr.nodes
      THEN Return(v, v.state, ErrNodeNotFound(v.currentNode))
    ELSE
      LET node == gr.nodes[v.currentNode]
          out == Call(node.Function, v.state)
          w == Logged(v, node, out)
          i == FirstEdge(gr.edges, v.currentNode)
      IN  IF i = 0
            THEN Return(v, v.state, ErrNoOutgoingEdge(v.currentNode))
          ELSE IF out.err /= "nil"
            THEN Return(w, out.state, ErrInNode(v.currentNode, out.err))
          ELSE [w EXCEPT !.state = out.state, !.currentNode = gr.edges[i].To]

\* Iter that returns the state from before the failing step
IterKeepState(gr, u) ==
    LET v == Begun(u) IN
    IF v.currentNode = END
      THEN Return(v, v.state, NoErr)
    ELSE IF v.currentNode \notin DOMAIN gr.nodes
      THEN Return(v, v.state, ErrNodeNotFound(v.currentNode))
    ELSE
      LET node == gr.nodes[v.currentNode]
          out == Call(node.Function, v.state)
          w == Logged(v, node, out)
          i == FirstEdge(gr.edges, v.currentNode)
      IN  IF out.err /= "nil"
            THEN Return(w, v.state, ErrInNode(v.currentNode, out.err))
          ELSE IF i = 0
            THEN Return(w, out.state, ErrNoOutgoingEdge(v.currentNode))
          ELSE [w EXCEPT !.state = out.state, !.currentNode = gr.edges[i].To]

\* Iter that stops at a node it has just left: a guard against cycles
IterCycleGuard(gr, u) ==
    LET v == Begun(u) IN
    IF v.currentNode = END
      THEN Return(v, v.state, NoErr)
    ELSE IF v.currentNode \notin DOMAIN gr.nodes
      THEN Return(v, v.state, ErrNodeNotFound(v.currentNode))
    ELSE
      LET node == gr.nodes[v.currentNode]
          out == Call(node.Function, v.state)
          w == Logged(v, node, out)
          i == FirstEdge(gr.edges, v.currentNode)
      IN  IF out.err /= "nil"
            THEN Return(w, out.state, ErrInNode(v.currentNode, out.err))
          ELSE IF i = 0 \/ \E k \in DOMAIN v.log : v.log[k].node = v.currentNode
            THEN Return(w, out.state, ErrNoOutgoingEdge(v.currentNode))
          ELSE [w EXCEPT !.state = out.state, !.currentNode = gr.edges[i].To]

\* Iter that returns the state Invoke was called with when a node is missing
IterNotFoundArg(gr, u) ==
    LET v == Begun(u) IN
    IF v.currentNode = END
      THEN Return(v, v.state, NoErr)
    ELSE IF v.currentNode \notin DOMAIN gr.nodes
      THEN Return(v, v.arg, ErrNodeNotFound(v.currentNode))
    ELSE
      LET node == gr.nodes[v.currentNode]
          out == Call(node.Function, v.state)
          w == Logged(v, node, out)
          i == FirstEdge(gr.edges, v.currentNode)
      IN  IF out.err /= "nil"
            THEN Return(w, out.state, ErrInNode(v.currentNode, out.err))
          ELSE IF i = 0
            THEN Return(w, out.state, ErrNoOutgoingEdge(v.currentNode))
          ELSE [w EXCEPT !.state = out.state, !.currentNode = gr.edges[i].To]

\* Iter that begins with "if err := ctx.Err(); err != nil { return state, err }"
IterCtxChecked(gr, u) ==
    LET v == Begun(u) IN
    IF v.ctx = Cancelled
      THEN Return(v, v.state, [kind |-> "context canceled", name |-> "", cause |-> "nil"])
    ELSE IF v.currentNode = END
      THEN Return(v, v.state, NoErr)
    ELSE IF v.currentNode \notin DOMAIN gr.nodes
      THEN Return(v, v.state, ErrNodeNotFound(v.currentNode))
    ELSE
      LET node == gr.nodes[v.currentNode]
          out == Call(node.Function, v.state)
          w == Logged(v, node, out)
          i == FirstEdge(gr.edges, v.currentNode)
      IN  IF out.err /= "nil"
            THEN Return(w, out.state, ErrInNode(v.currentNode, out.err))
          ELSE IF i = 0
            THEN Return(w, out.state, ErrNoOutgoingEdge(v.currentNode))
          ELSE [w EXCEPT !.state = out.state, !.currentNode = gr.edges[i].To]

\* Iter that breaks out of the loop, to "return state, nil", at a node that
\* no edge leaves
IterFallThrough(gr, u) ==
    LET v == Begun(u) IN
    IF v.currentNode = END
      THEN Return(v, v.state, NoErr)
    ELSE IF v.currentNode \notin DOMAIN gr.nodes
      THEN Return(v, v.state, ErrNodeNotFound(v.currentNode))
    ELSE
      LET node == gr.nodes[v.currentNode]
          out == Call(node.Function, v.state)
          w == Logged(v, node, out)
          i == FirstEdge(gr.edges, v.currentNode)
      IN  IF out.err /= "nil"
            THEN Return(w, out.state, ErrInNode(v.currentNode, out.err))
          ELSE IF i = 0
            THEN Return(w, out.state, NoErr)
          ELSE [w EXCEPT !.state = out.state, !.currentNode = gr.edges[i].To]

\* Iter that runs the step registered under END before it returns
IterEndStep(gr, u) ==
    LET v == Begun(u) IN
    IF v.currentNode \notin DOMAIN gr.nodes
      THEN Return(v, v.state, ErrNodeNotFound(v.currentNode))
    ELSE
      LET node == gr.nodes[v.currentNode]
          out == Call(node.Function, v.state)
          w == Logged(v, node, out)
          i == FirstEdge(gr.edges, v.currentNode)
      IN  IF out.err /= "nil"
            THEN Return(w, out.state, ErrInNode(v.currentNode, out.err))
          ELSE IF v.currentNode = END
            THEN Return(w, out.state, NoErr)
          ELSE IF i = 0
            THEN Return(w, out.state, ErrNoOutgoingEdge(v.currentNode))
          ELSE [w EXCEPT !.state = out.state, !.currentNode = gr.edges[i].To]

\* Iter that calls the step again on its own output when it has succeeded
IterCallTwice(gr, u) ==
    LET v == Begun(u) IN
    IF v.currentNode = END
      THEN Return(v, v.state, NoErr)
    ELSE IF v.currentNode \notin DOMAIN gr.nodes
      THEN Return(v, v.state, ErrNodeNotFound(v.currentNode))
    ELSE
      LET node == gr.nodes[v.currentNode]
          first == Call(node.Function, v.state)
          out == Call(node.Function, first.state)
          w == Logged([Logged(v, node, first) EXCEPT !.state = first.state], node, out)
          i == FirstEdge(gr.edges, v.currentNode)
      IN  IF first.err /= "nil"
            THEN Return(Logged(v, node, first), first.state,
                        ErrInNode(v.currentNode, first.err))
          ELSE IF i = 0
            THEN Return(w, out.state, ErrNoOutgoingEdge(v.currentNode))
          ELSE [w EXCEPT !.state = out.state, !.currentNode = gr.edges[i].To]

\* Iter with "currentNode := r.graph.entryPoint" moved into the loop: the
\* entry point is read by the first iteration
IterLateEntry(gr, u) ==
    LET first == ~u.odd /\ u.log = <<>>
        v == Begun(IF first THEN [u EXCEPT !.currentNode = gr.entryPoint] ELSE u)
    IN
    IF v.currentNode = END
      THEN Return(v, v.state, NoErr)
    ELSE IF v.currentNode \notin DOMAIN gr.nodes
      THEN Return(v, v.state, ErrNodeNotFound(v.currentNode))
    ELSE
      LET node == gr.nodes[v.currentNode]
          out == Call(node.Function, v.state)
          w == Logged(v, node, out)
          i == FirstEdge(gr.edges, v.currentNode)
      IN  IF out.err /= "nil"
            THEN Return(w, out.state, ErrInNode(v.currentNode, out.err))
          ELSE IF i = 0
            THEN Return(w, out.state, ErrNoOutgoingEdge(v.currentNode))
          ELSE [w EXCEPT !.state = out.state, !.currentNode = gr.edges[i].To]

\* one iteration of the for loop of Invoke on graph gr, from activation u
Iter(gr, u) ==
    LET v == Begun(u) IN
    IF v.currentNode = END
      THEN Return(v, v.state, NoErr)
    ELSE IF v.currentNode \notin DOMAIN gr.nodes
      THEN Return(v, v.state, ErrNodeNotFound(v.currentNode))
    ELSE
      LET node == gr.nodes[v.currentNode]
          out == Call(node.Function, v.state)
          w == Logged(v, node, out)
          i == FirstEdge(gr.edges, v.currentNode)
      IN  IF out.err /= "nil"
            THEN Return(w, out.state, ErrInNode(v.currentNode, out.err))
          ELSE IF i = 0
            THEN Return(w, out.state, ErrNoOutgoingEdge(v.currentNode))
          ELSE [w EXCEPT !.state = out.state, !.currentNode = gr.edges[i].To]

\* r.graph
Graph(r) == heap[r.graph]

InvokeStart(state) ==
    /\ runnable /= NilRunnable
    /\ inv.pc /= "loop"
    /\ inv' = Start(Graph(runnable), state)
    /\ UNCHANGED <<heap, runnable, cerr, calls, during, replaced>>

\* a run is followed as long as its state is no longer than MaxLen: at the
\* cap, the next iteration would make it longer
AtCap(gr, v) == Len(Iter(gr, v).state) > MaxLen

InvokeIter ==
    /\ inv.pc = "loop"
    /\ ~AtCap(Graph(runnable), inv)
    /\ inv' = Iter(Graph(runnable), inv)
    /\ UNCHANGED <<heap, runnable, cerr, calls, during, replaced>>

\* Invoke(ctx, state) on graph gr as a function: the activation after at most
\* fuel iterations of the loop
RECURSIVE Run(_, _, _)
Run(gr, v, fuel) ==
    IF v.pc /= "loop" \/ fuel = 0 \/ AtCap(gr, v) THEN v
    ELSE Run(gr, Iter(gr, v), fuel - 1)

\* no run that returns takes more iterations: it passes no pair of a node and
\* a state twice
RunFuel == Cardinality(EntryNames) * (MaxLen + 2) + 1

Invoke(gr, state) == Run(gr, Start(gr, state), RunFuel)

----------------------------------------------------------------------------
(* Invoke called from several goroutines on the one Runnable: each call has *)
(* its own parameters and locals, and the iterations of the calls           *)
(* interleave.                                                              *)

\* an activation whose currentNode is a field that the goroutines share
InvokeIterShared(c) ==
    /\ calls[c].pc = "loop"
    /\ ~AtCap(Graph(runnable), calls[c])
    /\ LET next == Iter(Graph(runnable), calls[c])
       IN  calls' = [d \in Goroutines |->
                        IF d = c THEN next
                        ELSE IF calls[d].pc = "loop"
                          THEN [calls[d] EXCEPT !.currentNode = next.currentNode]
                        ELSE calls[d]]
    /\ UNCHANGED <<heap, runnable, cerr, inv, during, replaced>>

\* goroutine c calls r.Invoke(ctx, state)
InvokeStartIn(c, ctx, state) ==
    /\ runnable /= NilRunnable
    /\ calls[c].pc /= "loop"
    /\ calls' = [calls EXCEPT ![c] = StartCtx(Graph(runnable), ctx, state)]
    /\ UNCHANGED <<heap, runnable, cerr, inv, during, replaced>>

\* goroutine c takes one iteration of the loop of its Invoke
InvokeIterIn(c) ==
    /\ calls[c].pc = "loop"
    /\ ~AtCap(Graph(runnable), calls[c])
    /\ calls' = [calls EXCEPT ![c] = Iter(Graph(runnable), @)]
    /\ UNCHANGED <<heap, runnable, cerr, inv, during, replaced>>

----------------------------------------------------------------------------
(* The builder called between two iterations of an Invoke in its loop, as  *)
(* a step of the graph can do; one such call is followed in a run.         *)

AddNodeDuring(name, fn) ==
    /\ inv.pc = "loop" /\ during = ""
    /\ heap' = [heap EXCEPT ![G].nodes = SetNode(@, name, fn)]
    /\ during' = "AddNode"
    /\ UNCHANGED <<runnable, cerr, inv, calls, replaced>>

AddEdgeDuring(from, to) ==
    /\ inv.pc = "loop" /\ during = ""
    /\ Len(g.edges) < MaxEdges
    /\ heap' = [heap EXCEPT ![G].edges = AppendEdge(@, from, to)]
    /\ during' = "AddEdge"
    /\ UNCHANGED <<runnable, cerr, inv, calls, replaced>>

SetEntryPointDuring(name) ==
    /\ inv.pc = "loop" /\ during = ""
    /\ heap' = [heap EXCEPT ![G].entryPoint = name]
    /\ during' = "SetEntryPoint"
    /\ UNCHANGED <<runnable, cerr, inv, calls, replaced>>

----------------------------------------------------------------------------

\* the caller has made the graph, on one goroutine
Init ==
    /\ heap = [p \in Ptrs |-> IF p = G THEN NewMessageGraph ELSE Nil]
    /\ runnable = NilRunnable
    /\ cerr = NoErr
    /\ inv = Idle
    /\ calls = <<>>
    /\ during = ""
    /\ replaced = ""

\* the caller has made the graph and the goroutines that will invoke it
InitConcurrent ==
    /\ heap = [p \in Ptrs |-> IF p = G THEN NewMessageGraph ELSE Nil]
    /\ runnable = NilRunnable
    /\ cerr = NoErr
    /\ inv = Idle
    /\ calls = [c \in Goroutines |-> Idle]
    /\ during = ""
    /\ replaced = ""

Next ==
    \/ \E name \in NodeNames, fn \in Steps : AddNode(name, fn)
    \/ \E from \in NodeNames, to \in NodeNames : AddEdge(from, to)
    \/ \E name \in EntryNames : SetEntryPoint(name)
    \/ Compile
    \/ \E state \in InitStates : InvokeStart(state)
    \/ InvokeIter

Spec == Init /\ [][Next]_vars

\* the same program, with the history of AddNode
NextHistory ==
    \/ \E name \in NodeNames, fn \in Steps : AddNodeHistory(name, fn)
    \/ \E from \in NodeNames, to \in NodeNames : AddEdge(from, to)
    \/ \E name \in EntryNames : SetEntryPoint(name)
    \/ Compile
    \/ \E state \in InitStates : InvokeStart(state)
    \/ InvokeIter

SpecHistory == Init /\ [][NextHistory]_vars

\* Invoke runs on the calling thread: a started loop takes its next iteration
FairSpec == Spec /\ WF_vars(InvokeIter)

\* the graph is built and compiled by one goroutine and, with no call on the
\* builder after Compile has succeeded, invoked by several; the builder
\* leaves END as NewMessageGraph registered it and draws no edge out of END
NextConcurrent ==
    \/ \E name \in StepNames, fn \in Steps :
           runnable = NilRunnable /\ AddNode(name, fn)
    \/ \E from \in StepNames, to \in NodeNames :
           runnable = NilRunnable /\ AddEdge(from, to)
    \/ \E name \in EntryNames :
           runnable = NilRunnable /\ SetEntryPoint(name)
    \/ runnable = NilRunnable /\ Compile
    \/ \E c \in Goroutines, ctx \in Contexts, state \in InitStates :
           InvokeStartIn(c, ctx, state)
    \/ \E c \in Goroutines : InvokeIterIn(c)

SpecConcurrent == InitConcurrent /\ [][NextConcurrent]_vars

\* the graph is built and compiled, Invoke is called once, and the builder is
\* called between two of its iterations; the builder leaves END as
\* NewMessageGraph registered it and draws no edge out of END
NextInterleaved ==
    \/ \E name \in StepNames, fn \in Steps :
           runnable = NilRunnable /\ AddNode(name, fn)
    \/ \E from \in StepNames, to \in NodeNames :
           runnable = NilRunnable /\ AddEdge(from, to)
    \/ \E name \in EntryNames :
           runnable = NilRunnable /\ SetEntryPoint(name)
    \/ runnable = NilRunnable /\ Compile
    \/ \E state \in InitStates : inv.pc = "idle" /\ InvokeStart(state)
    \/ InvokeIter
    \/ \E name \in StepNames, fn \in Steps : AddNodeDuring(name, fn)
    \/ \E from \in StepNames, to \in NodeNames : AddEdgeDuring(from, to)
    \/ \E name \in EntryNames : SetEntryPointDuring(name)

SpecInterleaved == Init /\ [][NextInterleaved]_vars

----------------------------------------------------------------------------
(* The walk of the claims: the names reached from the entry point by going *)
(* from each name to the target of the first declared edge that leaves it. *)

HasEdge(edges, n) == \E i \in 1..Len(edges) : edges[i].From = n

FirstTo(edges, n) ==
    LET i == CHOOSE i \in 1..Len(edges) :
                 /\ edges[i].From = n
                 /\ \A j \in 1..(i - 1) : edges[j].From /= n
    IN  edges[i].To

\* a step that succeeds on every state
Succeeds(fn) == \A s \in {<<>>, <<0>>} : Call(fn, s).err = "nil"

\* the walk stops at n: END, a name that is not registered, a step that fails,
\* or a node that no edge leaves
StopsAt(gr, n) ==
    \/ n = END
    \/ n \notin DOMAIN gr.nodes
    \/ ~Succeeds(gr.nodes[n].Function)
    \/ ~HasEdge(gr.edges, n)

RECURSIVE WalkFrom(_, _, _)
WalkFrom(gr, n, k) ==
    IF k = 0 \/ StopsAt(gr, n) THEN <<n>>
    ELSE <<n>> \o WalkFrom(gr, FirstTo(gr.edges, n), k - 1)

\* the walk from the entry point, cut after it has left every name once
Walk(gr) == WalkFrom(gr, gr.entryPoint, Cardinality(DOMAIN gr.nodes))

Last(w) == w[Len(w)]

\* the walk comes to a stop: it does not return to a name it has left
WalkEnds(gr) == StopsAt(gr, Last(Walk(gr)))

\* entry -> n1 -> ... -> nk -> END over registered nodes whose steps succeed
IsChain(gr) ==
    /\ Last(Walk(gr)) = END
    /\ \A i \in 1..(Len(Walk(gr)) - 1) :
           /\ Walk(gr)[i] \in DOMAIN gr.nodes
           /\ Succeeds(gr.nodes[Walk(gr)[i]].Function)

Returned == inv.pc = "returned"

\* the last step invocation of the run
LastCall == inv.log[Len(inv.log)]

----------------------------------------------------------------------------
(* C1: on a graph whose walk is a chain entry -> n1 -> .. -> nk -> END of   *)
(* registered nodes with succeeding steps, a returned Invoke has a nil     *)
(* error, has invoked exactly the steps of n1 .. nk, once each and in that *)
(* order, the first on the initial state and each next one on the output   *)
(* of the one before, and returns the output of the last.                  *)
C1_LinearChain ==
    (Returned /\ IsChain(g)) =>
        LET w == Walk(g)
            k == Len(w) - 1
        IN  /\ inv.err = NoErr
            /\ ~inv.more
            /\ Len(inv.log) = k
            /\ \A i \in 1..k :
                   /\ inv.log[i].node = w[i]
                   /\ inv.log[i].fn = g.nodes[w[i]].Function
                   /\ inv.log[i].in = (IF i = 1 THEN inv.arg ELSE inv.log[i - 1].out)
                   /\ inv.log[i].err = "nil"
                   /\ inv.log[i].out = Call(inv.log[i].fn, inv.log[i].in).state
            /\ inv.state = (IF k = 0 THEN inv.arg ELSE inv.log[k].out)

\* the "Simple graph" test: two appending nodes in a chain, run to its end
C1_Witness ==
    /\ Returned /\ IsChain(g)
    /\ Len(Walk(g)) = 3
    /\ Len(inv.log) = 2
    /\ inv.log[1].fn = "append" /\ inv.log[2].fn = "append"
    /\ inv.state = <<0, 1, 1>>

----------------------------------------------------------------------------
(* C2: the step registered under END is never invoked, whatever was        *)
(* registered under END and whatever edges leave it; an iteration that     *)
(* starts with currentNode = END returns the state it has with a nil error *)
(* and invokes nothing.                                                    *)
C2_EndNotInvoked ==
    /\ [](\A i \in DOMAIN inv.log : inv.log[i].node /= END)
    /\ [][(inv.pc = "loop" /\ inv.currentNode = END /\ inv' /= inv) =>
             /\ inv'.pc = "returned"
             /\ inv'.err = NoErr
             /\ inv'.state = inv.state
             /\ inv'.log = inv.log /\ inv'.more = inv.more]_vars
    /\ []((Returned /\ inv.currentNode = END) => inv.err = NoErr)

\* END re-registered with the failing step, an edge out of END, a run that
\* invoked a step and ended at END
C2_Witness ==
    /\ Returned /\ inv.currentNode = END /\ inv.err = NoErr
    /\ g.nodes[END].Function = "fail"
    /\ HasEdge(g.edges, END)
    /\ inv.log /= <<>>

----------------------------------------------------------------------------
(* C3: Compile returns ErrEntryPointNotSet and a nil Runnable exactly when *)
(* the entry point is "", and otherwise a Runnable on the graph and a nil  *)
(* error, whatever the nodes and edges are; SetEntryPoint(name) leaves     *)
(* name as the entry point, so the last call decides.                      *)
C3_CompileEntryPoint ==
    [][ /\ Compile =>
            /\ (g.entryPoint = "") <=> (cerr' = ErrEntryPointNotSet)
            /\ (g.entryPoint = "") <=> (runnable' = NilRunnable)
            /\ (g.entryPoint /= "") <=> (cerr' = NoErr)
            /\ (g.entryPoint /= "") <=> (runnable' = [graph |-> G])
        /\ \A name \in EntryNames :
               SetEntryPoint(name) => heap'[G].entryPoint = name ]_vars

\* Compile has succeeded on a graph whose entry point and whose edges name
\* no registered node
C3_Witness ==
    /\ runnable /= NilRunnable /\ cerr = NoErr
    /\ g.entryPoint = "a"
    /\ DOMAIN g.nodes = {END}
    /\ Len(g.edges) >= 1
    /\ \A i \in 1..Len(g.edges) : g.edges[i].To = "b"

----------------------------------------------------------------------------
(* C4: a call that changes the edges appends one edge, whether or not its  *)
(* target is registered, and leaves the result of Compile as it is, and    *)
(* Compile succeeds whatever the edges are. Invoke returns                 *)
(* ErrNodeNotFound only for the name that is its current node: a name that *)
(* is not registered and is not END, reached either as the entry point     *)
(* with no step invoked, or as the target of the first edge out of the     *)
(* node invoked last, every step invoked before having succeeded.          *)
C4_DanglingTarget ==
    /\ []((Returned /\ inv.err.kind = "ErrNodeNotFound") =>
            /\ inv.err = ErrNodeNotFound(inv.currentNode)
            /\ inv.currentNode \notin DOMAIN g.nodes
            /\ inv.currentNode /= END
            /\ \A i \in DOMAIN inv.log : inv.log[i].err = "nil"
            /\ IF inv.log = <<>>
                 THEN inv.currentNode = g.entryPoint /\ inv.state = inv.arg
                 ELSE /\ LastCall.node \in DOMAIN g.nodes
                      /\ HasEdge(g.edges, LastCall.node)
                      /\ FirstTo(g.edges, LastCall.node) = inv.currentNode
                      /\ inv.state = LastCall.out)
    /\ [][ /\ (Len(heap'[G].edges) /= Len(g.edges)) =>
                  /\ \E from \in NodeNames, to \in NodeNames :
                         heap'[G].edges = Append(g.edges, Edge(from, to))
                  /\ cerr' = cerr /\ runnable' = runnable
           /\ (Compile /\ g.entryPoint /= "") => cerr' = NoErr
           /\ (inv.pc = "loop" /\ inv' /= inv /\ inv.currentNode /= END
                 /\ inv.currentNode \notin DOMAIN g.nodes) =>
                  /\ inv'.pc = "returned"
                  /\ inv'.err = ErrNodeNotFound(inv.currentNode)
                  /\ inv'.state = inv.state /\ inv'.log = inv.log ]_vars

\* the "Node not found" test: a is registered, the edge a -> b dangles, and
\* Invoke fails on b after it has invoked a
C4_Witness ==
    /\ Returned /\ inv.err = ErrNodeNotFound("b")
    /\ cerr = NoErr
    /\ DOMAIN g.nodes = {END, "a"}
    /\ g.edges = <<Edge("a", "b")>>
    /\ Len(inv.log) = 1 /\ inv.log[1].node = "a"

----------------------------------------------------------------------------
(* C5: when the current node n is registered, is not END, its step         *)
(* succeeds and no edge leaves n, the iteration returns ErrNoOutgoingEdge  *)
(* with the name n and the output of n's step; Invoke returns that error   *)
(* in no other case, and only after it has invoked n's step.               *)
C5_NoOutgoingEdge ==
    /\ []((Returned /\ inv.err.kind = "ErrNoOutgoingEdge") =>
            /\ inv.err = ErrNoOutgoingEdge(inv.currentNode)
            /\ inv.currentNode \in DOMAIN g.nodes
            /\ inv.currentNode /= END
            /\ ~HasEdge(g.edges, inv.currentNode)
            /\ inv.log /= <<>>
            /\ LastCall.node = inv.currentNode
            /\ LastCall.fn = g.nodes[inv.currentNode].Function
            /\ LastCall.err = "nil"
            /\ LastCall.out = Call(LastCall.fn, LastCall.in).state
            /\ inv.state = LastCall.out)
    /\ [][(/\ inv.pc = "loop" /\ inv' /= inv
           /\ inv.currentNode \in DOMAIN g.nodes
           /\ inv.currentNode /= END
           /\ Call(g.nodes[inv.currentNode].Function, inv.state).err = "nil"
           /\ ~HasEdge(g.edges, inv.currentNode)) =>
             /\ inv'.pc = "returned"
             /\ inv'.err = ErrNoOutgoingEdge(inv.currentNode)
             /\ inv'.state = Call(g.nodes[inv.currentNode].Function, inv.state).state
         ]_vars

\* a -> b, b appends and no edge leaves b: the error names b and the state
\* is b's output
C5_Witness ==
    /\ Returned /\ inv.err = ErrNoOutgoingEdge("b")
    /\ Len(inv.log) = 2
    /\ inv.log[2].node = "b" /\ inv.log[2].fn = "append"
    /\ inv.log[2].in = <<0>>
    /\ inv.state = <<0, 1>>

----------------------------------------------------------------------------
(* C6: when a step returns an error, it is the last step the run invokes:  *)
(* Invoke has returned, the current node is still the failing node (no     *)
(* edge was followed), the error names that node and wraps the step's      *)
(* error, and the state returned is the one the step returned with its     *)
(* error; a returned run takes no further iteration.                       *)
C6_StepFailure ==
    /\ [](\A i \in DOMAIN inv.log :
            inv.log[i].err /= "nil" =>
                /\ i = Len(inv.log)
                /\ Returned
                /\ inv.currentNode = inv.log[i].node
                /\ inv.err = ErrInNode(inv.log[i].node, inv.log[i].err)
                /\ inv.state = inv.log[i].out)
    /\ []((Returned /\ inv.err.kind = "ErrInNode") =>
            /\ inv.log /= <<>>
            /\ LastCall.err /= "nil"
            /\ [state |-> inv.state, err |-> inv.err.cause]
                   = Call(g.nodes[inv.err.name].Function, LastCall.in))
    /\ [][Returned => (inv' = inv \/ inv'.pc = "idle" \/ inv'.log = <<>>)]_vars

\* a -> b with an edge out of b, a appends and b fails: the state returned is
\* the nil that b returned, not the <<0, 1>> it was called with
C6_Witness ==
    /\ Returned /\ inv.err = ErrInNode("b", "node error")
    /\ HasEdge(g.edges, "b")
    /\ Len(inv.log) = 2
    /\ inv.log[2].in = <<0, 1>>
    /\ inv.state = <<>>

----------------------------------------------------------------------------
(* C7: an iteration whose step succeeds goes on to the target of the first *)
(* edge, in declaration order, that leaves the current node; and appending *)
(* an edge from a node that an edge already leaves changes neither the     *)
(* nodes Invoke visits nor what it returns (every graph the builder makes  *)
(* is the graph of a state in which Compile has not been called).          *)
C7_FirstEdgeWins ==
    /\ [][(inv.pc = "loop" /\ inv'.pc = "loop" /\ inv' /= inv) =>
             \E i \in 1..Len(g.edges) :
                 /\ g.edges[i].From = inv.currentNode
                 /\ \A j \in 1..(i - 1) : g.edges[j].From /= inv.currentNode
                 /\ inv'.currentNode = g.edges[i].To ]_vars
    /\ []((inv.pc = "idle" /\ runnable = NilRunnable /\ cerr = NoErr) =>
            \A from \in NodeNames, to \in NodeNames, s \in InitStates :
                HasEdge(g.edges, from) =>
                    Invoke([g EXCEPT !.edges = AppendEdge(@, from, to)], s)
                        = Invoke(g, s))

\* edges a -> b and then a -> END: the run went from a to b
C7_Witness ==
    /\ Returned
    /\ g.edges = <<Edge("a", "b"), Edge("a", END)>>
    /\ Len(inv.log) = 2
    /\ inv.log[1].node = "a" /\ inv.log[2].node = "b"

----------------------------------------------------------------------------
(* C8: AddNode on a registered name leaves the set of registered names as  *)
(* it is, puts the new step under that name and changes no other node; a   *)
(* run invokes, for each name it visits, the step registered last.         *)
C8_LastWriteWins ==
    /\ [](inv.pc = "idle" => \A name \in DOMAIN g.nodes, fn \in Steps :
            LET nodes == SetNode(g.nodes, name, fn)
            IN  /\ DOMAIN nodes = DOMAIN g.nodes
                /\ nodes[name] = Node(name, fn)
                /\ \A n \in DOMAIN g.nodes \ {name} : nodes[n] = g.nodes[n])
    /\ [][(replaced' /= replaced /\ replaced' /= "") =>
             /\ DOMAIN heap'[G].nodes = DOMAIN g.nodes
             /\ heap'[G].nodes[replaced'].Name = replaced'
             /\ heap'[G].nodes[replaced'].Function /= g.nodes[replaced'].Function
             /\ \A n \in DOMAIN g.nodes \ {replaced'} :
                    heap'[G].nodes[n] = g.nodes[n] ]_vars
    /\ [](\A i \in DOMAIN inv.log :
            /\ inv.log[i].node \in DOMAIN g.nodes
            /\ inv.log[i].fn = g.nodes[inv.log[i].node].Function)

\* the step of a was replaced by another one, and a run then invoked a
C8_Witness ==
    /\ replaced = "a"
    /\ Returned
    /\ \E i \in DOMAIN inv.log : inv.log[i].node = "a"

----------------------------------------------------------------------------
(* C9, as claimed: every Invoke that has started returns (or leaves the    *)
(* states this model follows), also on a graph with a cycle.               *)
C9_AlwaysReturns ==
    (inv.pc = "loop") ~> (Returned \/ (inv.pc = "loop" /\ AtCap(Graph(runnable), inv)))

(* C9, amended: Compile accepts graphs with cycles; an Invoke on a graph   *)
(* whose walk comes to a stop returns, and no Invoke returns on a graph    *)
(* whose walk returns to a node it has left: nothing detects the cycle.    *)
C9_ReturnsIffWalkEnds ==
    /\ (inv.pc = "loop" /\ WalkEnds(g)) ~> Returned
    /\ [](Returned => WalkEnds(g))

\* a run on a -> b -> END after both steps, about to return
C9_Witness ==
    /\ inv.pc = "loop" /\ inv.currentNode = END
    /\ WalkEnds(g)
    /\ Len(inv.log) = 2

----------------------------------------------------------------------------
(* C10: a Runnable refers to the graph it was compiled from and no copy of *)
(* the graph is made; an Invoke that has returned has run on the graph as  *)
(* it is after the calls made on the builder since Compile.                *)
C10_RunsOnLiveGraph ==
    /\ runnable \in {NilRunnable, [graph |-> G]}
    /\ Returned => inv = Invoke(g, inv.arg)

\* SetEntryPoint("") after Compile: Invoke starts at "" and fails on it
C10_Witness ==
    /\ runnable /= NilRunnable
    /\ g.entryPoint = ""
    /\ Returned /\ inv.err = ErrNodeNotFound("")
    /\ inv.log = <<>>

----------------------------------------------------------------------------
(* The call that goroutine c has made, run alone. *)

Alone(c) == StartCtx(g, calls[c].ctx, calls[c].arg)

\* activation v is reached from activation u by iterations on gr alone
RECURSIVE Reaches(_, _, _, _)
Reaches(gr, u, v, fuel) ==
    \/ u = v
    \/ /\ fuel > 0 /\ u.pc = "loop" /\ ~AtCap(gr, u)
       /\ Reaches(gr, Iter(gr, u), v, fuel - 1)

----------------------------------------------------------------------------
(* C11: with no call on the builder after Compile, every Invoke that runs  *)
(* while others run on the same Runnable is, after each of its iterations, *)
(* where the same call run alone is after as many iterations: it visits    *)
(* the same nodes and returns the same state and error; an iteration       *)
(* changes the activation of its own call only, and no field of the graph. *)
C11_ConcurrentInvoke ==
    /\ [](\A c \in Goroutines :
            calls[c].pc /= "idle" => Reaches(g, Alone(c), calls[c], RunFuel))
    /\ [](\A c \in Goroutines :
            calls[c].pc = "returned" => calls[c] = Run(g, Alone(c), RunFuel))
    /\ [][\A c \in Goroutines :
             calls'[c] /= calls[c] =>
                 /\ heap' = heap
                 /\ \A d \in Goroutines \ {c} : calls'[d] = calls[d] ]_vars

\* q is between two iterations of a run that p has meanwhile gone through
C11_Witness ==
    /\ calls["p"].pc = "returned" /\ Len(calls["p"].log) = 2
    /\ calls["p"].err = NoErr
    /\ calls["q"].pc = "loop" /\ Len(calls["q"].log) = 1
    /\ calls["q"].currentNode /= END

----------------------------------------------------------------------------
(* C12: an Invoke that returns ErrNodeNotFound returns the state it had    *)
(* when it reached the missing name: the state it was called with when the *)
(* entry point is the missing name and no step was invoked, and otherwise  *)
(* the output of the step invoked last, which succeeded.                   *)
C12_NotFoundState ==
    (Returned /\ inv.err.kind = "ErrNodeNotFound") =>
        IF g.entryPoint \notin DOMAIN g.nodes
          THEN /\ inv.log = <<>> /\ ~inv.more
               /\ inv.err.name = g.entryPoint
               /\ inv.state = inv.arg
          ELSE /\ inv.log /= <<>>
               /\ LastCall.err = "nil"
               /\ LastCall.out = Call(LastCall.fn, LastCall.in).state
               /\ inv.state = LastCall.out

\* a appends and its edge leads to b, which is not registered: the state
\* returned with the error is a's output, not the initial state
C12_Witness ==
    /\ Returned /\ inv.err = ErrNodeNotFound("b")
    /\ g.entryPoint = "a"
    /\ LastCall.node = "a" /\ LastCall.fn = "append"
    /\ inv.arg = <<0>> /\ inv.state = <<0, 1>>

----------------------------------------------------------------------------
(* What a caller and the steps see of a run, the context apart: the steps  *)
(* invoked with their inputs and outputs, and the state and error returned. *)

Visit(e) == [node |-> e.node, fn |-> e.fn, in |-> e.in, out |-> e.out, err |-> e.err]

Outcome(v) ==
    [pc |-> v.pc, currentNode |-> v.currentNode, state |-> v.state, err |-> v.err,
     visits |-> [i \in DOMAIN v.log |-> Visit(v.log[i])], more |-> v.more]

----------------------------------------------------------------------------
(* C13: the loop does not look at the context. An Invoke that has returned *)
(* has visited the nodes and returned the state and error that the same    *)
(* call does with any other context, cancelled or not, and so have two     *)
(* calls with the same argument; every step was handed the context that    *)
(* Invoke was called with.                                                 *)
C13_ContextIgnored ==
    /\ \A c \in Goroutines : \A i \in DOMAIN calls[c].log :
           calls[c].log[i].ctx = calls[c].ctx
    /\ \A c \in Goroutines : calls[c].pc = "returned" =>
           \A ctx \in Contexts :
               Outcome(calls[c]) = Outcome(Run(g, StartCtx(g, ctx, calls[c].arg), RunFuel))
    /\ \A c \in Goroutines, d \in Goroutines :
           (/\ calls[c].pc = "returned" /\ calls[d].pc = "returned"
            /\ calls[c].arg = calls[d].arg) =>
               Outcome(calls[c]) = Outcome(calls[d])

\* p was called with a cancelled context and q with a live one: both have
\* gone through the two steps of the chain
C13_Witness ==
    /\ calls["p"].pc = "returned" /\ calls["p"].ctx = Cancelled
    /\ calls["q"].pc = "returned" /\ calls["q"].ctx = Background
    /\ Len(calls["p"].log) = 2 /\ calls["p"].err = NoErr
    /\ calls["p"].state = <<0, 1, 1>>
    /\ calls["q"].state = <<0, 1, 1>>

----------------------------------------------------------------------------
(* C14: END is a key of the node map in every state: NewMessageGraph       *)
(* registers it, AddNode can put another step under it, and no operation   *)
(* takes a key out of the map.                                             *)
C14_EndRegistered ==
    /\ [](END \in DOMAIN g.nodes /\ g.nodes[END].Name = END)
    /\ [][DOMAIN g.nodes \subseteq DOMAIN heap'[G].nodes]_vars

\* END was registered again with another step, every name is registered,
\* and the graph has been compiled and run
C14_Witness ==
    /\ g.nodes[END].Function = "append"
    /\ DOMAIN g.nodes = NodeNames
    /\ Len(g.edges) = MaxEdges
    /\ cerr = NoErr /\ runnable /= NilRunnable
    /\ Returned

----------------------------------------------------------------------------
(* The names that edges lead to. *)

Targets(edges) == {edges[i].To : i \in 1..Len(edges)}

----------------------------------------------------------------------------
(* C15: an Invoke that has returned has a nil error exactly when its       *)
(* current node is END; any other return has one of the three kinds of     *)
(* error, decided by where the walk stopped: ErrNodeNotFound at a name     *)
(* that is not registered, ErrInNode at a node whose step failed,          *)
(* ErrNoOutgoingEdge at a node whose step succeeded and that no edge       *)
(* leaves. The name in ErrNodeNotFound is the entry point or the target of *)
(* an edge, and it is not END.                                             *)
C15_Classification ==
    Returned =>
        /\ (inv.err = NoErr) <=> (inv.currentNode = END)
        /\ (inv.err.kind = "nil") <=> (inv.err = NoErr)
        /\ inv.err.kind \in {"nil", "ErrNodeNotFound", "ErrNoOutgoingEdge", "ErrInNode"}
        /\ (inv.err.kind = "ErrNodeNotFound") <=>
               (inv.currentNode /= END /\ inv.currentNode \notin DOMAIN g.nodes)
        /\ (inv.err.kind = "ErrInNode") <=>
               (inv.log /= <<>> /\ LastCall.err /= "nil")
        /\ (inv.err.kind = "ErrNoOutgoingEdge") <=>
               (/\ inv.currentNode /= END
                /\ inv.currentNode \in DOMAIN g.nodes
                /\ inv.log /= <<>> /\ LastCall.err = "nil"
                /\ ~HasEdge(g.edges, inv.currentNode))
        /\ (inv.err.kind = "ErrNodeNotFound") =>
               /\ inv.err.name = inv.currentNode
               /\ inv.err.name \in {g.entryPoint} \cup Targets(g.edges)
               /\ inv.err.name /= END

\* the entry point b is not registered and no edge leads to b
C15_Witness ==
    /\ Returned /\ inv.err = ErrNodeNotFound("b")
    /\ g.entryPoint = "b"
    /\ g.edges /= <<>>
    /\ "b" \notin Targets(g.edges)

----------------------------------------------------------------------------
(* C16: with END as the entry point, Compile succeeds, and Invoke returns  *)
(* on its first iteration the state it was called with and a nil error,    *)
(* with no step invoked, whatever is registered under END or any other     *)
(* name and whatever the edges are.                                        *)
C16_EntryIsEnd ==
    /\ [][(Compile /\ g.entryPoint = END) =>
             (cerr' = NoErr /\ runnable' = [graph |-> G])]_vars
    /\ [][(inv.pc /= "loop" /\ inv'.pc = "loop" /\ g.entryPoint = END) =>
             (/\ inv'.currentNode = END
              /\ Iter(g, inv').pc = "returned"
              /\ Iter(g, inv').state = inv'.arg)]_vars
    /\ []((Returned /\ g.entryPoint = END) =>
            /\ inv.err = NoErr
            /\ inv.state = inv.arg
            /\ inv.currentNode = END
            /\ inv.log = <<>> /\ ~inv.more
            /\ inv.odd)

\* END is the entry point and is registered with the failing step, edges
\* leave END, another node is registered: Invoke has returned its argument
C16_Witness ==
    /\ Returned /\ g.entryPoint = END
    /\ g.nodes[END].Function = "fail"
    /\ "a" \in DOMAIN g.nodes
    /\ Len(g.edges) = MaxEdges /\ HasEdge(g.edges, END)
    /\ inv.arg = <<0>> /\ inv.state = <<0>> /\ inv.err = NoErr

----------------------------------------------------------------------------
(* The walk comes to a name a second time. *)

Repeats(gr) ==
    LET w == Walk(gr)
    IN  \E i \in 1..Len(w), j \in 1..Len(w) : i < j /\ w[i] = w[j]

\* the nodes other than END that are registered
Registered(gr) == DOMAIN gr.nodes \ {END}

----------------------------------------------------------------------------
(* C17: on a graph whose walk from the entry point comes to no name twice, *)
(* a started Invoke returns, and it has then invoked at most as many steps *)
(* as there are registered nodes other than END, no node's step twice; on  *)
(* a graph whose walk comes to a name a second time (every step on the way *)
(* succeeds, or the walk would have stopped), no Invoke returns.           *)
C17_BoundedWalk ==
    /\ (inv.pc = "loop" /\ ~Repeats(g)) ~> Returned
    /\ []((inv.pc /= "idle" /\ ~Repeats(g)) =>
            /\ ~inv.more
            /\ Len(inv.log) <= Cardinality(Registered(g))
            /\ \A i \in DOMAIN inv.log, j \in DOMAIN inv.log :
                   inv.log[i].node = inv.log[j].node => i = j)
    /\ [](Returned => ~Repeats(g))

\* every registered node other than END has been invoked, once, and the run
\* has returned
C17_Witness ==
    /\ Returned /\ ~Repeats(g)
    /\ Cardinality(Registered(g)) = 2
    /\ Len(inv.log) = 2
    /\ inv.err.kind = "ErrNoOutgoingEdge"

----------------------------------------------------------------------------
(* C18: a step that changes the node map changes the entry of one name     *)
(* and leaves the edges and the entry point as they are; a step that       *)
(* changes the edges appends one edge to them, whatever its endpoints, and *)
(* leaves the nodes and the entry point; a step that changes the entry     *)
(* point leaves the nodes and the edges; Compile and the steps of Invoke   *)
(* change no field of the graph.                                           *)
C18_Frame ==
    /\ [][heap'[G].nodes /= g.nodes =>
             /\ heap'[G].edges = g.edges
             /\ heap'[G].entryPoint = g.entryPoint
             /\ \E name \in NodeNames :
                    /\ DOMAIN heap'[G].nodes = DOMAIN g.nodes \cup {name}
                    /\ \A n \in DOMAIN g.nodes \ {name} :
                           heap'[G].nodes[n] = g.nodes[n] ]_vars
    /\ [][heap'[G].edges /= g.edges =>
             /\ heap'[G].nodes = g.nodes
             /\ heap'[G].entryPoint = g.entryPoint
             /\ Len(heap'[G].edges) = Len(g.edges) + 1
             /\ \A i \in 1..Len(g.edges) : heap'[G].edges[i] = g.edges[i] ]_vars
    /\ [][heap'[G].entryPoint /= g.entryPoint =>
             /\ heap'[G].nodes = g.nodes
             /\ heap'[G].edges = g.edges ]_vars
    /\ [][(Compile \/ runnable' /= runnable \/ cerr' /= cerr) => heap' = heap]_vars
    /\ [][(inv' /= inv /\ inv'.pc /= "idle") => heap' = heap]_vars
    /\ [](inv.pc = "idle" =>
            \A from \in NodeNames, to \in NodeNames :
                LET edges == AppendEdge(g.edges, from, to)
                IN  /\ Len(edges) = Len(g.edges) + 1
                    /\ edges[Len(edges)] = Edge(from, to)
                    /\ \A i \in 1..Len(g.edges) : edges[i] = g.edges[i])

\* two edges between names that are not registered, in the order of the
\* calls, on a graph whose nodes and entry point are as NewMessageGraph
\* made them
C18_Witness ==
    /\ g.edges = <<Edge("a", "b"), Edge("b", "a")>>
    /\ g.nodes = NewMessageGraph.nodes
    /\ g.entryPoint = ""

----------------------------------------------------------------------------
(* The graph before its last edge was appended. *)

Front(edges) == SubSeq(edges, 1, Len(edges) - 1)

BeforeEdge(gr) == [gr EXCEPT !.edges = Front(@)]

----------------------------------------------------------------------------
(* C19: Invoke reads the entry point when it starts and not again, and     *)
(* reads the nodes and the edges of the graph as they are at each          *)
(* iteration. A SetEntryPoint between two iterations leaves the rest of    *)
(* the run as it was, and the run that returns is the run from some entry  *)
(* point on the nodes and edges as they are. An AddEdge between two        *)
(* iterations leaves the first edge out of every node that had one, and    *)
(* changes what the run returns only when its from had no edge before.     *)
C19_InterleavedBuilder ==
    /\ [][(inv.pc /= "loop" /\ inv'.pc = "loop") =>
             inv'.currentNode = g.entryPoint]_vars
    /\ [][(inv.pc = "loop" /\ inv' /= inv) => inv' = Iter(g, inv)]_vars
    /\ [][(inv.pc = "loop" /\ heap'[G].entryPoint /= g.entryPoint) =>
             /\ inv' = inv
             /\ Run(heap'[G], inv, RunFuel) = Run(g, inv, RunFuel)]_vars
    /\ [][(inv.pc = "loop" /\ heap'[G].edges /= g.edges) =>
             /\ inv' = inv
             /\ \A n \in NodeNames :
                    HasEdge(g.edges, n) =>
                        FirstTo(heap'[G].edges, n) = FirstTo(g.edges, n)]_vars
    /\ []((Returned /\ during \in {"", "SetEntryPoint"}) =>
            \E e \in EntryNames :
                inv = Invoke([g EXCEPT !.entryPoint = e], inv.arg))
    /\ []((Returned /\ during = "AddEdge") =>
            \/ inv = Invoke(BeforeEdge(g), inv.arg)
            \/ ~HasEdge(Front(g.edges), g.edges[Len(g.edges)].From))

\* AddEdge was called while the run was at a node that no edge left: the run
\* went on along the new edge and returned with a nil error, where the
\* graph as it was when Invoke started gives ErrNoOutgoingEdge
C19_Witness ==
    /\ Returned /\ during = "AddEdge"
    /\ inv.err = NoErr
    /\ inv.log /= <<>>
    /\ Invoke(BeforeEdge(g), inv.arg).err.kind = "ErrNoOutgoingEdge"

\* AddNode was called between two visits of a node: the same run has
\* invoked two different steps under one name
C19_StepChanged ==
    /\ inv.pc = "loop" /\ during = "AddNode"
    /\ Len(inv.log) = 2
    /\ inv.log[1].node = inv.log[2].node
    /\ inv.log[1].fn /= inv.log[2].fn

\* SetEntryPoint was called after Invoke had started: the run began at the
\* entry point that was set before
C19_EntryChanged ==
    /\ Returned /\ during = "SetEntryPoint"
    /\ inv.log /= <<>> /\ ~inv.more
    /\ inv.log[1].node /= g.entryPoint

====
